---- MODULE Spec2Model ----
(***************************************************************************)
(* A model of the m4s-converter run (src/main.go, src/common/util.go):     *)
(* the header repair of cache fragments, the filename sanitiser, the       *)
(* cache walk followed by the per-session merge loop, and the muxer's      *)
(* pipe readers.                                                           *)
(*                                                                         *)
(* Characters are Unicode code points, byte values are numbers; a path is  *)
(* a tuple <<directory, stem, extension>> and the empty path is <<>>.      *)
(***************************************************************************)
EXTENDS Integers, Sequences, FiniteSets, TLC

VARIABLES
    \* ---- sanitiser (Filter) ----
    name,          \* the string handed to Filter
    once,          \* Filter(name)
    twice,         \* Filter(Filter(name))
    fpc,           \* "input" | "once" | "twice"
    \* ---- header repair (M4sToAV) ----
    rfs,           \* files of the repair: path of each existing file -> bytes
    rfs0,          \* the files before the first repair
    rerr,          \* the error returned by the last repair
    rruns,         \* number of repairs run so far
    \* ---- the run (main) ----
    pc,            \* position of main
    tree,          \* the cache tree: per directory, what the client left there
    subdirs,       \* the subdirectories of the cache root, in walk order
    processed,     \* an earlier run has merged every session of the tree
    Overlay,       \* Config.Overlay: "-n" or "-y"
    fs,            \* files of the tree: path of each existing file -> bytes
    queue,         \* entries the cache walk has still to visit
    walk,          \* history of the walk
    dirs,          \* the session directories still to merge
    AssPath,       \* Config.AssPath
    outputFiles,   \* main's outputFiles
    skipFilePaths, \* main's skipFilePaths
    sess,          \* per directory, what the merge loop did with it
    boxes,         \* number of MessageBox calls
    fatal,         \* the fatal error met, "none" if none
    exitCode,      \* the process exit code, -1 while running
    \* ---- the muxer's pipes (Composition) ----
    cpc,           \* position of Composition
    proc,          \* "running" | "exited"
    outRem,        \* bytes the muxer has still to write to stdout
    errRem,        \* bytes the muxer has still to write to stderr
    outBuf,        \* bytes held in the stdout pipe
    errBuf,        \* bytes held in the stderr pipe
    closed,        \* Wait has closed the read ends of the pipes
    outReader,     \* printOutput: "none" | "reading" | "done"
    errReader      \* printError: "none" | "reading" | "done"

filterVars == <<name, once, twice, fpc>>
repairVars == <<rfs, rfs0, rerr, rruns>>
runVars == <<pc, tree, subdirs, processed, Overlay, fs, queue, walk, dirs, AssPath,
             outputFiles, skipFilePaths, sess, boxes, fatal, exitCode>>
pipeVars == <<cpc, proc, outRem, errRem, outBuf, errBuf, closed,
              outReader, errReader>>
vars == <<filterVars, repairVars, runVars, pipeVars>>

----------------------------------------------------------------------------
(* Bounds *)

\* longest string handed to Filter
MaxNameLen == 3
\* longest payload that follows a fragment's 9-byte header
MaxPayload == 2
\* number of times the repair is run on one fragment
MaxRuns == 2
\* most bytes the muxer writes to one stream (more than a pipe and one read hold)
MaxData == 4
\* capacity of an OS pipe buffer
PipeCap == 2

----------------------------------------------------------------------------
(* Sequences *)

Min(a, b) == IF a < b THEN a ELSE b

\* s without its first n elements (everything when n >= Len(s))
Drop(s, n) == IF n >= Len(s) THEN <<>> ELSE SubSeq(s, n + 1, Len(s))

\* the first n elements of s (all of s when it is shorter)
Take(s, n) == SubSeq(s, 1, Min(n, Len(s)))

\* all sequences over S of length at most n
SeqsUpTo(S, n) == UNION {[1..k -> S] : k \in 0..n}

----------------------------------------------------------------------------
(* Filter: the filename sanitiser, util.go 329-344 *)

\* the eleven replacements of Filter, old code point -> new code point:
\*  <  -> U+300A   >  -> U+300B   \  -> #   "  -> '   /  -> _   |  -> _
\*  ?  -> _        *  -> _   U+3010 -> [   U+3011 -> ]    :  -> U+FF1A
Replacements ==
    << <<60, 12298>>, <<62, 12299>>, <<92, 35>>, <<34, 39>>, <<47, 95>>,
       <<124, 95>>, <<63, 95>>, <<42, 95>>, <<12304, 91>>, <<12305, 93>>,
       <<58, 65306>> >>

\* the characters strings.TrimSpace removes (unicode.IsSpace)
WhiteSpace == {9, 10, 11, 12, 13, 32, 133, 160, 5760, 8232, 8233, 8239, 8287, 12288}
                 \cup (8192..8202)

\* strings.ReplaceAll(s, old, new) for one-character old and new
ReplaceAll(s, old, new) == [i \in 1..Len(s) |-> IF s[i] = old THEN new ELSE s[i]]

RECURSIVE TrimLeft(_)
TrimLeft(s) ==
    IF s # <<>> /\ s[1] \in WhiteSpace THEN TrimLeft(Tail(s)) ELSE s

RECURSIVE TrimRight(_)
TrimRight(s) ==
    IF s # <<>> /\ s[Len(s)] \in WhiteSpace
    THEN TrimRight(SubSeq(s, 1, Len(s) - 1)) ELSE s

\* strings.TrimSpace
TrimSpace(s) == TrimRight(TrimLeft(s))

\* the replacements applied in the order of the source, from the k-th on
RECURSIVE ReplaceFrom(_, _)
ReplaceFrom(s, k) ==
    IF k > Len(Replacements) THEN s
    ELSE ReplaceFrom(ReplaceAll(s, Replacements[k][1], Replacements[k][2]), k + 1)

\* a sanitiser that forgets the final trim
FilterNoTrim(s) == ReplaceFrom(s, 1)

Filter(s) == TrimSpace(ReplaceFrom(s, 1))

----------------------------------------------------------------------------
(* Files: copyFile and M4sToAV, util.go 203-241 *)

\* A file system is a function from the paths of the existing files to
\* their bytes.
EmptyPath == <<>>
NoFiles == [p \in {} |-> <<>>]

\* os.Open(p) succeeds
CanOpen(f, p) == p \in DOMAIN f
\* os.Create(p) succeeds: the empty path names no file
CanCreate(p) == p # EmptyPath
\* os.Create(p) followed by writing bytes
WriteFile(f, p, bytes) == [q \in DOMAIN f \cup {p} |-> IF q = p THEN bytes ELSE f[q]]
\* whether path p is in the same state in f and g
SameFile(f, g, p) ==
    /\ p \in DOMAIN f <=> p \in DOMAIN g
    /\ p \in DOMAIN f => f[p] = g[p]

\* the header's length, and the header a fragment must carry: "000000000"
HeaderLen == 9
Sentinel == [i \in 1..HeaderLen |-> 48]

\* io.ReadAtLeast(srcFile, data, 9) into a zeroed buffer of 9 bytes
ReadHeader(bytes) ==
    [i \in 1..HeaderLen |-> IF i <= Len(bytes) THEN bytes[i] ELSE 0]

\* a callback that seeks one byte short
HeaderFnShort(bytes) ==
    IF ReadHeader(bytes) # Sentinel THEN Min(HeaderLen, Len(bytes))
    ELSE HeaderLen - 1

\* the callback of M4sToAV (util.go 227-240), as the read offset it leaves
\* the source file at: the read moved it to min(9, length); on a matching
\* header the file is seeked to 9, otherwise the callback just returns
HeaderFn(bytes) ==
    IF ReadHeader(bytes) # Sentinel THEN Min(HeaderLen, Len(bytes))
    ELSE HeaderLen

\* the callback of Composition's copyFile (util.go 98): func(*os.File) {}
NoFn(bytes) == 0

\* the callbacks handed to copyFile, by name, applied to the opened source
Callback(fn, bytes) == IF fn = "header" THEN HeaderFn(bytes) ELSE NoFn(bytes)

\* copyFile(src, dst, fn): the resulting files and whether an error is
\* returned. os.Create truncates dst before io.Copy reads src from the
\* offset fn left.
copyFile(f, src, dst, fn) ==
    IF ~CanOpen(f, src) THEN [fs |-> f, err |-> TRUE]
    ELSE IF ~CanCreate(dst) THEN [fs |-> f, err |-> TRUE]
    ELSE LET off == Callback(fn, f[src])
             created == WriteFile(f, dst, <<>>)
         IN  [fs |-> WriteFile(created, dst, Drop(created[src], off)),
              err |-> FALSE]

M4sToAV(f, src, dst) == copyFile(f, src, dst, "header")

----------------------------------------------------------------------------
(* Idle values: a specification pins the variables of the other parts *)

FilterIdle == name = <<>> /\ once = <<>> /\ twice = <<>> /\ fpc = "idle"
RepairIdle ==
    rfs = NoFiles /\ rfs0 = NoFiles /\ rerr = FALSE /\ rruns = 0
RunIdle ==
    /\ pc = "idle" /\ tree = <<>> /\ subdirs = <<>> /\ processed = FALSE
    /\ Overlay = "-n"
    /\ fs = NoFiles /\ queue = <<>> /\ walk = <<>> /\ dirs = <<>>
    /\ AssPath = EmptyPath /\ outputFiles = <<>> /\ skipFilePaths = <<>>
    /\ sess = <<>> /\ boxes = 0 /\ fatal = "none" /\ exitCode = -1
PipeIdle ==
    /\ cpc = "idle" /\ proc = "none" /\ outRem = 0 /\ errRem = 0
    /\ outBuf = 0 /\ errBuf = 0 /\ closed = FALSE
    /\ outReader = "none" /\ errReader = "none"

----------------------------------------------------------------------------
(* The sanitiser applied once and twice to every short string *)

\* the eleven characters Filter replaces
Forbidden == {Replacements[k][1] : k \in 1..Len(Replacements)}
\* what it replaces them by
Replaced == {Replacements[k][2] : k \in 1..Len(Replacements)}
\* the characters the checked strings are made of: the forbidden ones, their
\* replacements, a space, an ideographic space and the letter a
FilterAlphabet == Forbidden \cup Replaced \cup {32, 12288, 97}

FilterInit ==
    /\ name \in SeqsUpTo(FilterAlphabet, MaxNameLen)
    /\ once = <<>> /\ twice = <<>> /\ fpc = "input"
    /\ RepairIdle /\ RunIdle /\ PipeIdle

\* once = Filter(name)
FilterOnce ==
    /\ fpc = "input"
    /\ once' = Filter(name)
    /\ fpc' = "once"
    /\ UNCHANGED <<name, twice, repairVars, runVars, pipeVars>>

\* twice = Filter(once)
FilterTwice ==
    /\ fpc = "once"
    /\ twice' = Filter(once)
    /\ fpc' = "twice"
    /\ UNCHANGED <<name, once, repairVars, runVars, pipeVars>>

FilterNext == FilterOnce \/ FilterTwice

SpecFilter == FilterInit /\ [][FilterNext]_vars

\* C7: Filter is idempotent, and its result holds none of the eleven
\* forbidden characters and neither starts nor ends with white space.
C7_FilterIdempotentClean ==
    /\ fpc = "twice" => twice = once
    /\ fpc \in {"once", "twice"} =>
          /\ \A i \in 1..Len(once) : once[i] \notin Forbidden
          /\ once # <<>> =>
                once[1] \notin WhiteSpace /\ once[Len(once)] \notin WhiteSpace

\* a string with white space at both ends around a forbidden character has
\* been sanitised twice
C7_Witness ==
    /\ fpc = "twice"
    /\ Len(name) = 3
    /\ name[1] \in WhiteSpace /\ name[2] \in Forbidden /\ name[3] \in WhiteSpace
    /\ Len(once) = 1

----------------------------------------------------------------------------
(* The header repair run on one fragment, once and again *)

SrcPath == <<"c", "100", ".m4s">>
DstPath == <<"c", "100", ".video">>

\* the bytes fragments are made of: '0' and '1'
Bytes == {48, 49}
\* what a previous run or another program left at the destination
OldContent == <<49, 49, 49>>

RepairInit ==
    /\ \E bytes \in SeqsUpTo(Bytes, HeaderLen + MaxPayload) :
          rfs0 \in {SrcPath :> bytes,
                    WriteFile(SrcPath :> bytes, DstPath, <<>>),
                    WriteFile(SrcPath :> bytes, DstPath, OldContent)}
    /\ rfs = rfs0
    /\ rerr = FALSE /\ rruns = 0
    /\ FilterIdle /\ RunIdle /\ PipeIdle

\* M4sToAV(src, dst)
Repair ==
    /\ rruns < MaxRuns
    /\ LET r == M4sToAV(rfs, SrcPath, DstPath)
       IN  rfs' = r.fs /\ rerr' = r.err
    /\ rruns' = rruns + 1
    /\ UNCHANGED <<rfs0, filterVars, runVars, pipeVars>>

RepairNext == Repair

SpecRepair == RepairInit /\ [][RepairNext]_vars

\* the fragment starts with the nine bytes "000000000"
HasSentinel(bytes) == Len(bytes) >= HeaderLen /\ Take(bytes, HeaderLen) = Sentinel

\* C2: a fragment whose first 9 bytes are not the sentinel (a shorter one
\* included) is skipped: the destination is neither created nor written,
\* and no error is returned.
C2_BadHeaderNoWrite ==
    (rruns >= 1 /\ ~HasSentinel(rfs0[SrcPath])) =>
        SameFile(rfs, rfs0, DstPath) /\ rerr = FALSE

\* C6: after any number of repairs of a fragment that starts with the
\* sentinel, the destination holds the source's bytes from offset 9 on
\* (sourceLength - 9 of them), whatever it held before, the source is
\* unchanged and no error was returned.
C6_RepairStripsHeader ==
    (rruns >= 1 /\ HasSentinel(rfs0[SrcPath])) =>
        /\ DstPath \in DOMAIN rfs
        /\ rfs[DstPath] = Drop(rfs0[SrcPath], HeaderLen)
        /\ Len(rfs[DstPath]) = Len(rfs0[SrcPath]) - HeaderLen
        /\ SameFile(rfs, rfs0, SrcPath)
        /\ rerr = FALSE

\* a fragment with the sentinel and a payload was repaired twice over a
\* destination that held something else
C6_Witness ==
    /\ rruns >= 2
    /\ HasSentinel(rfs0[SrcPath]) /\ Len(rfs0[SrcPath]) > HeaderLen
    /\ DstPath \in DOMAIN rfs0 /\ rfs0[DstPath] = OldContent
    /\ rfs[DstPath] # OldContent

----------------------------------------------------------------------------
(* The run: main, main.go 16-125 *)

Range(q) == {q[i] : i \in 1..Len(q)}

\* the file extensions of package conver
M4sSuffix == ".m4s"
VideoSuffix == ".video"
AudioSuffix == ".audio"
Mp4Suffix == ".mp4"
AssSuffix == ".ass"

\* "completed", " completed" and "downloading"
Completed == <<99, 111, 109, 112, 108, 101, 116, 101, 100>>
PaddedCompleted == <<32>> \o Completed
Downloading == <<100, 111, 119, 110, 108, 111, 97, 100, 105, 110, 103>>
\* the status strings a session manifest may store; <<>> when it stores none
StoredStatus == {Completed, PaddedCompleted, Downloading, <<>>}

\* the session manifest (videoInfo) of a directory
InfoStates ==
    {[state |-> "absent", status |-> <<>>], [state |-> "unparsable", status |-> <<>>]}
        \cup {[state |-> "ok", status |-> st] : st \in StoredStatus}

\* the stream ids a readable play manifest names: video 100, audio 200
VideoId == "100"
AudioId == "200"

\* a fragment as the client writes it: the sentinel header and a payload
GoodFrag == Sentinel \o <<49>>

\* what the client left in one directory: the play manifest, the session
\* manifest, and whether the video and the audio fragment are there
DirStates ==
    [playurl : {"absent", "unparsable", "ok"},
     info : InfoStates,
     video : BOOLEAN,
     audio : BOOLEAN]

\* the cache root and the layouts of its subdirectories, in lexical order
Root == "root"
Layouts == {<<>>, <<"s1">>, <<"s1", "s2">>}
\* the directories that hold a session: the subdirectories, or the root
\* itself when it has none
SessionDirs(sub) == IF sub = <<>> THEN {Root} ELSE Range(sub)

FragPath(d, id) == <<d, id, M4sSuffix>>
OutputFile(d) == <<"output", d, Mp4Suffix>>

\* the files of the tree before the run: the fragments, and, when an
\* earlier run has processed the tree, the output of every session
TreeFiles(t, merged) ==
    LET ds == DOMAIN t
        paths == {FragPath(d, VideoId) : d \in {x \in ds : t[x].video}}
                   \cup {FragPath(d, AudioId) : d \in {x \in ds : t[x].audio}}
                   \cup {OutputFile(d) : d \in {x \in ds : merged}}
    IN  [q \in paths |-> IF q[3] = M4sSuffix THEN GoodFrag ELSE <<>>]

\* the entries filepath.WalkDir visits under directory d, in lexical order:
\* the directory, then its fragments
DirEntries(f, d) ==
    <<[dir |-> TRUE, path |-> <<d>>]>>
      \o (IF FragPath(d, VideoId) \in DOMAIN f
          THEN <<[dir |-> FALSE, path |-> FragPath(d, VideoId)]>> ELSE <<>>)
      \o (IF FragPath(d, AudioId) \in DOMAIN f
          THEN <<[dir |-> FALSE, path |-> FragPath(d, AudioId)]>> ELSE <<>>)

RECURSIVE SubEntries(_, _)
SubEntries(f, sub) ==
    IF sub = <<>> THEN <<>>
    ELSE DirEntries(f, Head(sub)) \o SubEntries(f, Tail(sub))

WalkEntries(f, sub) == DirEntries(f, Root) \o SubEntries(f, sub)

\* what the merge loop has not yet done with a directory
Pending ==
    [outcome |-> "pending", fetch |-> "none", video |-> EmptyPath,
     audio |-> EmptyPath, muxed |-> FALSE, wait |-> "none"]

RunInit ==
    /\ pc = "lock"
    /\ subdirs \in Layouts
    /\ tree \in [SessionDirs(subdirs) -> DirStates]
    /\ Overlay \in {"-n", "-y"}
    /\ processed \in BOOLEAN
    /\ fs = TreeFiles(tree, processed)
    /\ queue = WalkEntries(fs, subdirs)
    /\ walk = [err |-> FALSE, listErr |-> FALSE]
    /\ dirs = <<>>
    /\ AssPath = EmptyPath
    /\ outputFiles = <<>> /\ skipFilePaths = <<>>
    /\ sess = [d \in SessionDirs(subdirs) |-> Pending]
    /\ boxes = 0 /\ fatal = "none" /\ exitCode = -1
    /\ FilterIdle /\ RepairIdle /\ PipeIdle

\* c.MessageBox(text)
MessageBox == boxes' = boxes + 1

\* LockMutex("m4sTool"), main.go 23-26: another instance holds the lock, or
\* the lock is taken and the walk starts
LockMutex ==
    /\ pc = "lock"
    /\ \E held \in BOOLEAN :
          IF held
          THEN /\ MessageBox
               /\ fatal' = "lock" /\ exitCode' = 1 /\ pc' = "exited"
          ELSE /\ pc' = "walk"
               /\ UNCHANGED <<boxes, fatal, exitCode>>
    /\ UNCHANGED <<tree, subdirs, processed, Overlay, fs, queue, walk, dirs, AssPath,
                   outputFiles, skipFilePaths, sess>>
    /\ UNCHANGED <<filterVars, repairVars, pipeVars>>

\* GetVAId(patch), util.go 447-461: the ids of the play manifest beside the
\* fragment, both empty when the manifest cannot be read or parsed
GetVAId(t, src) ==
    IF t[src[1]].playurl = "ok" THEN <<VideoId, AudioId>> ELSE <<"", "">>

\* the destination FindM4sFiles computes for fragment src, util.go 115-122
Destination(t, src) ==
    LET ids == GetVAId(t, src)
    IN  IF ids[1] # "" /\ ids[2] # ""
        THEN IF src[2] = ids[2]
             THEN <<src[1], src[2], AudioSuffix>>
             ELSE <<src[1], src[2], VideoSuffix>>
        ELSE EmptyPath

\* One call of FindM4sFiles by filepath.WalkDir (util.go 109-130), and, when
\* the walk ends with it, what main does with the walk's result (main.go
\* 31-34). A directory's entry may carry a listing error; a fragment is
\* repaired into the destination its play manifest gives.
FindM4sFiles ==
    /\ pc = "walk"
    /\ queue # <<>>
    /\ LET e == Head(queue)
       IN  \E listErr \in BOOLEAN :
             LET r == IF e.dir THEN [fs |-> fs, err |-> listErr]
                      ELSE M4sToAV(fs, e.path, Destination(tree, e.path))
             IN  /\ fs' = r.fs
                 /\ IF r.err
                    THEN \* the walk returns the error; main notifies and waits
                         /\ walk' = [err |-> TRUE, listErr |-> e.dir]
                         /\ boxes' = boxes + (IF e.dir THEN 1 ELSE 2)
                         /\ fatal' = "walk"
                         /\ pc' = "wait"
                         /\ UNCHANGED queue
                    ELSE /\ queue' = Tail(queue)
                         /\ pc' = IF Tail(queue) = <<>> THEN "enumerate" ELSE "walk"
                         /\ UNCHANGED <<walk, boxes, fatal>>
    /\ UNCHANGED <<tree, subdirs, processed, Overlay, dirs, AssPath, outputFiles,
                   skipFilePaths, sess, exitCode>>
    /\ UNCHANGED <<filterVars, repairVars, pipeVars>>

\* GetCacheDir(c.CachePath) and the fallback to the cache path itself,
\* main.go 36-48: the subdirectories, or the root when it has none and holds
\* a session manifest
GetCacheDir ==
    /\ pc = "enumerate"
    /\ \E err \in BOOLEAN :
          IF err
          THEN /\ MessageBox
               /\ fatal' = "enum" /\ pc' = "wait"
               /\ UNCHANGED dirs
          ELSE /\ dirs' = IF subdirs # <<>> THEN subdirs
                          ELSE IF tree[Root].info.state # "absent" THEN <<Root>>
                          ELSE <<>>
               /\ pc' = "merge"
               /\ UNCHANGED <<boxes, fatal>>
    /\ UNCHANGED <<tree, subdirs, processed, Overlay, fs, queue, walk, AssPath,
                   outputFiles, skipFilePaths, sess, exitCode>>
    /\ UNCHANGED <<filterVars, repairVars, pipeVars>>

\* Config.AssOFF, util.go 43: the flag's default is read before flag.Parse,
\* so danmaku generation is never switched off
AssOFF == FALSE

\* the subtitle file conver.Xml2ass writes for the danmaku of directory d
Xml2ass(d) == <<d, d, AssSuffix>>

\* the subtitle path beside an output file, util.go 97
AssFile(out) == <<out[1], out[2], AssSuffix>>

\* the file GetAudioAndVideo's walk of directory d finds for a suffix,
\* util.go 174-181; the empty path when there is none
Found(f, d, suffix) ==
    LET c == {q \in DOMAIN f : q[1] = d /\ q[3] = suffix}
    IN  IF c = {} THEN EmptyPath ELSE CHOOSE q \in c : TRUE

\* the result of cmd.Wait() for the muxer: it refuses an existing output
\* unless told to overwrite, cannot read a missing input, and may fail
\* otherwise (ok is the environment's choice)
MuxerWait(f, video, audio, out, ok) ==
    IF out \in DOMAIN f /\ Overlay = "-n" THEN FALSE
    ELSE IF video = EmptyPath \/ audio = EmptyPath THEN FALSE
    ELSE ok

\* One iteration of main's loop over the session directories, main.go
\* 54-101, with GetAudioAndVideo (util.go 165-201) and Composition (util.go
\* 64-107). The environment decides whether the directory walk fails, the
\* danmaku download succeeds, the group directory can be made, the muxer
\* starts and the muxer succeeds.
MergeSession ==
    /\ pc = "merge"
    /\ dirs # <<>>
    /\ \E gaErr, fetchOk, mkdirOk, startOk, muxOk \in BOOLEAN :
         LET v == Head(dirs)
             \* GetAudioAndVideo
             fetched == ~gaErr /\ ~AssOFF /\ fetchOk
             ass == IF fetched THEN Xml2ass(v) ELSE AssPath
             fs1 == IF fetched THEN WriteFile(fs, Xml2ass(v), <<>>) ELSE fs
             video == IF gaErr THEN EmptyPath ELSE Found(fs, v, VideoSuffix)
             audio == IF gaErr THEN EmptyPath ELSE Found(fs, v, AudioSuffix)
             \* the session manifest
             info == tree[v].info
             status == Filter(info.status)
             \* the output
             outputFile == OutputFile(v)
             needDir == outputFile \notin DOMAIN fs
             \* Composition
             copied == copyFile(fs1, ass, AssFile(outputFile), "none")
             waitOk == MuxerWait(fs, video, audio, outputFile, muxOk)
             result ==
                 IF gaErr THEN "walkErr"
                 ELSE IF info.state = "absent" THEN "noInfo"
                 ELSE IF info.state = "unparsable" THEN "badInfo"
                 ELSE IF status # Completed THEN "skipped"
                 ELSE IF needDir /\ ~mkdirOk THEN "mkdirFail"
                 ELSE IF ~startOk THEN "startFail"
                 ELSE "composed"
         IN  \E outcome \in {result} :
                 /\ AssPath' = ass
                 /\ sess' = [sess EXCEPT ![v] =
                       [outcome |-> outcome,
                        fetch |-> IF gaErr \/ AssOFF THEN "none"
                                  ELSE IF fetchOk THEN "ok" ELSE "fail",
                        video |-> video,
                        audio |-> audio,
                        muxed |-> outcome = "composed",
                        wait |-> IF outcome # "composed" THEN "none"
                                 ELSE IF waitOk THEN "ok" ELSE "fail"]]
                 /\ fs' = IF outcome # "composed" THEN fs1
                          ELSE IF waitOk THEN WriteFile(copied.fs, outputFile, <<>>)
                          ELSE copied.fs
                 /\ skipFilePaths' = IF outcome = "skipped"
                                     THEN Append(skipFilePaths, v) ELSE skipFilePaths
                 \* Composition returns nil whatever cmd.Wait() returned
                 /\ outputFiles' = IF outcome = "composed"
                                   THEN Append(outputFiles, outputFile) ELSE outputFiles
                 /\ boxes' = IF outcome \in {"mkdirFail", "startFail"}
                             THEN boxes + 1 ELSE boxes
                 /\ fatal' = IF outcome = "mkdirFail" THEN "mkdir"
                             ELSE IF outcome = "startFail" THEN "start" ELSE fatal
                 /\ exitCode' = IF outcome = "startFail" THEN 1 ELSE exitCode
                 /\ pc' = IF outcome = "mkdirFail" THEN "wait"
                          ELSE IF outcome = "startFail" THEN "exited" ELSE "merge"
                 /\ dirs' = IF outcome \in {"mkdirFail", "startFail"} THEN dirs
                            ELSE Tail(dirs)
    /\ UNCHANGED <<tree, subdirs, processed, Overlay, queue, walk>>
    /\ UNCHANGED <<filterVars, repairVars, pipeVars>>

\* the end of the loop and the summary, main.go 103-118
Summary ==
    /\ pc = "merge"
    /\ dirs = <<>>
    /\ pc' = "wait"
    /\ UNCHANGED <<tree, subdirs, processed, Overlay, fs, queue, walk, dirs, AssPath,
                   outputFiles, skipFilePaths, sess, boxes, fatal, exitCode>>
    /\ UNCHANGED <<filterVars, repairVars, pipeVars>>

\* wait(), main.go 121-125: the prompt, then os.Exit(0)
wait ==
    /\ pc = "wait"
    /\ exitCode' = 0
    /\ pc' = "exited"
    /\ UNCHANGED <<tree, subdirs, processed, Overlay, fs, queue, walk, dirs, AssPath,
                   outputFiles, skipFilePaths, sess, boxes, fatal>>
    /\ UNCHANGED <<filterVars, repairVars, pipeVars>>

Init == RunInit

Next == LockMutex \/ FindM4sFiles \/ GetCacheDir \/ MergeSession \/ Summary \/ wait

Spec == Init /\ [][Next]_vars

----------------------------------------------------------------------------
(* Claims about the run *)

\* the merge loop has recorded the output of directory d
Recorded(d) == OutputFile(d) \in Range(outputFiles)

\* C1: a fragment whose play manifest is absent or unparsable is skipped and
\* the walk goes on: unless a directory listing failed, the walk returns no
\* error, every fragment with a readable manifest is repaired, and the run
\* goes on to the merge phase.
C1_MissingManifestSkipped ==
    (pc \notin {"lock", "walk"} /\ fatal # "lock" /\ ~walk.listErr) =>
        /\ ~walk.err
        /\ fatal # "walk"
        /\ \A q \in DOMAIN fs :
              (q[3] = M4sSuffix /\ tree[q[1]].playurl = "ok") =>
                  Destination(tree, q) \in DOMAIN fs

\* C3: an output path is recorded only when the muxer's wait returned no
\* error; so a run over a tree an earlier run has processed, with overwrite
\* disabled, records no output.
C3_OutputOnlyOnMuxerSuccess ==
    /\ \A d \in DOMAIN sess : Recorded(d) => sess[d].wait = "ok"
    /\ (pc = "exited" /\ processed /\ Overlay = "-n") => outputFiles = <<>>

\* C4: the muxer is invoked, and an output recorded, only for a session
\* whose manifest stores exactly the status "completed".
C4_OnlyCompletedMuxed ==
    \A d \in DOMAIN sess :
        (sess[d].muxed \/ Recorded(d)) =>
            tree[d].info.state = "ok" /\ tree[d].info.status = Completed

\* C5: after a fatal error of the walk, of the directory enumeration or of
\* the creation of the group directory, a notification has been shown, no
\* further session is processed and the process exits with a non-zero code.
C5_FatalExitsNonZero ==
    fatal \in {"walk", "enum", "mkdir"} =>
        /\ boxes >= 1
        /\ pc \in {"wait", "exited"}
        /\ pc = "exited" => exitCode # 0

\* C8: a session with status "completed" whose directory lacks the repaired
\* video or the repaired audio file is skipped: no muxer, no output path.
C8_MissingStreamsSkipped ==
    \A d \in DOMAIN sess :
        ( /\ sess[d].outcome # "pending"
          /\ tree[d].info.state = "ok" /\ tree[d].info.status = Completed
          /\ \/ Found(fs, d, VideoSuffix) = EmptyPath
             \/ Found(fs, d, AudioSuffix) = EmptyPath )
        => ~sess[d].muxed /\ ~Recorded(d)

\* C9: a session whose danmaku fetch failed is merged without subtitles: no
\* subtitle file is put beside its output.
C9_NoStaleSubtitle ==
    \A d \in DOMAIN sess :
        sess[d].fetch = "fail" => AssFile(OutputFile(d)) \notin DOMAIN fs

----------------------------------------------------------------------------
(* The muxer's pipes: Composition from cmd.Start() on, util.go 86-106, with
   printOutput and printError, util.go 414-444 *)

\* the readers' buffer: make([]byte, 1024)
BufLen == 1024

PipeInit ==
    /\ cpc = "goOut"
    /\ proc = "running"
    /\ outRem \in 0..MaxData /\ errRem \in 0..MaxData
    /\ outBuf = 0 /\ errBuf = 0
    /\ closed = FALSE
    /\ outReader = "none" /\ errReader = "none"
    /\ FilterIdle /\ RepairIdle /\ RunIdle

\* the muxer writes to its standard output while the pipe has room
WriteStdout ==
    /\ proc = "running" /\ outRem > 0 /\ outBuf < PipeCap
    /\ \E n \in 1..Min(outRem, PipeCap - outBuf) :
          outRem' = outRem - n /\ outBuf' = outBuf + n
    /\ UNCHANGED <<cpc, proc, errRem, errBuf, closed, outReader, errReader>>
    /\ UNCHANGED <<filterVars, repairVars, runVars>>

\* the muxer writes to its standard error while the pipe has room
WriteStderr ==
    /\ proc = "running" /\ errRem > 0 /\ errBuf < PipeCap
    /\ \E n \in 1..Min(errRem, PipeCap - errBuf) :
          errRem' = errRem - n /\ errBuf' = errBuf + n
    /\ UNCHANGED <<cpc, proc, outRem, outBuf, closed, outReader, errReader>>
    /\ UNCHANGED <<filterVars, repairVars, runVars>>

\* the muxer exits once it has written everything; its ends of the pipes
\* close with it
MuxerExit ==
    /\ proc = "running" /\ outRem = 0 /\ errRem = 0
    /\ proc' = "exited"
    /\ UNCHANGED <<cpc, outRem, errRem, outBuf, errBuf, closed, outReader, errReader>>
    /\ UNCHANGED <<filterVars, repairVars, runVars>>

\* go printOutput(stdout), util.go 92
GoPrintOutput ==
    /\ cpc = "goOut"
    /\ outReader' = "reading"
    /\ cpc' = "goErr"
    /\ UNCHANGED <<proc, outRem, errRem, outBuf, errBuf, closed, errReader>>
    /\ UNCHANGED <<filterVars, repairVars, runVars>>

\* go printError(stderr, outputFile), util.go 95
GoPrintError ==
    /\ cpc = "goErr"
    /\ errReader' = "reading"
    /\ cpc' = "copy"
    /\ UNCHANGED <<proc, outRem, errRem, outBuf, errBuf, closed, outReader>>
    /\ UNCHANGED <<filterVars, repairVars, runVars>>

\* the copy of the subtitle file, util.go 97-100
CopyAss ==
    /\ cpc = "copy"
    /\ cpc' = "wait"
    /\ UNCHANGED <<proc, outRem, errRem, outBuf, errBuf, closed, outReader, errReader>>
    /\ UNCHANGED <<filterVars, repairVars, runVars>>

\* cmd.Wait(), util.go 102: returns once the muxer has exited, and closes
\* the read ends of both pipes
CmdWait ==
    /\ cpc = "wait"
    /\ proc = "exited"
    /\ closed' = TRUE
    /\ cpc' = "returned"
    /\ UNCHANGED <<proc, outRem, errRem, outBuf, errBuf, outReader, errReader>>
    /\ UNCHANGED <<filterVars, repairVars, runVars>>

\* a reader of the standard output that returns after its first read
printOutputOnce ==
    /\ outReader = "reading"
    /\ IF closed \/ (outBuf = 0 /\ proc = "exited")
       THEN outReader' = "done" /\ UNCHANGED outBuf
       ELSE /\ outBuf > 0
            /\ \E n \in 1..Min(outBuf, BufLen) : outBuf' = outBuf - n
            /\ outReader' = "done"
    /\ UNCHANGED <<cpc, proc, outRem, errRem, errBuf, closed, errReader>>
    /\ UNCHANGED <<filterVars, repairVars, runVars>>

\* one turn of printOutput's loop, util.go 416-425: Read returns the bytes
\* the pipe holds (at most 1024), blocks while it is empty and the muxer
\* runs, and returns an error, which ends the reader, at end of file or once
\* Wait has closed the pipe
printOutput ==
    /\ outReader = "reading"
    /\ IF closed \/ (outBuf = 0 /\ proc = "exited")
       THEN outReader' = "done" /\ UNCHANGED outBuf
       ELSE /\ outBuf > 0
            /\ \E n \in 1..Min(outBuf, BufLen) : outBuf' = outBuf - n
            /\ UNCHANGED outReader
    /\ UNCHANGED <<cpc, proc, outRem, errRem, errBuf, closed, errReader>>
    /\ UNCHANGED <<filterVars, repairVars, runVars>>

\* one turn of printError's loop, util.go 431-443
printError ==
    /\ errReader = "reading"
    /\ IF closed \/ (errBuf = 0 /\ proc = "exited")
       THEN errReader' = "done" /\ UNCHANGED errBuf
       ELSE /\ errBuf > 0
            /\ \E n \in 1..Min(errBuf, BufLen) : errBuf' = errBuf - n
            /\ UNCHANGED errReader
    /\ UNCHANGED <<cpc, proc, outRem, errRem, outBuf, closed, outReader>>
    /\ UNCHANGED <<filterVars, repairVars, runVars>>

PipeNext ==
    \/ WriteStdout \/ WriteStderr \/ MuxerExit
    \/ GoPrintOutput \/ GoPrintError \/ CopyAss \/ CmdWait
    \/ printOutput \/ printError

\* the operating system runs the muxer, the Go scheduler runs the main flow
\* and each reader goroutine
PipeFairness ==
    /\ WF_vars(WriteStdout) /\ WF_vars(WriteStderr) /\ WF_vars(MuxerExit)
    /\ WF_vars(GoPrintOutput) /\ WF_vars(GoPrintError) /\ WF_vars(CopyAss)
    /\ WF_vars(CmdWait)
    /\ WF_vars(printOutput) /\ WF_vars(printError)

SpecPipe == PipeInit /\ [][PipeNext]_vars /\ PipeFairness

\* C10: a muxer that writes a finite amount to both streams is never blocked
\* for ever on a full pipe: it exits, the main flow's wait returns and both
\* readers end, with no cancellation sent to them.
C10_PipesDrain ==
    <>(proc = "exited" /\ cpc = "returned"
         /\ outReader = "done" /\ errReader = "done")

\* the muxer is blocked: both pipes are full and it has more to write to each
C10_Witness ==
    /\ proc = "running"
    /\ errBuf = PipeCap /\ errRem > 0
    /\ outBuf = PipeCap /\ outRem > 0

====
